---- MODULE Spec2Model ----
(***************************************************************************)
(* Connection phase state machine of rubas-w3app.                          *)
(*                                                                         *)
(*   useConnectionStore   (src/src/stores/useConnectionStore.ts)           *)
(*   usePhaseTimelineStore (src/unnamed/part_004)                          *)
(*   localStorage item "connection-storage" written by zustand's persist   *)
(*   MetaMaskConnectionTimeline, the component that runs the phase probes  *)
(*     (src/src/components/molecules/MetaMaskConnectionTimeline/           *)
(*      MetaMaskConnectionTimeline.tsx, lines 323-612)                     *)
(*                                                                         *)
(* Time.  Date.now() and new Date() read one wall clock.  The model's      *)
(* clock counts whole minutes since the epoch; `now` is the value of the   *)
(* latest read.  Every read of an operation may return a later value than  *)
(* the read before it, so an operation takes its reads as a non-decreasing *)
(* tuple r with now <= r[1] and leaves now' at the last read it made.      *)
(***************************************************************************)
EXTENDS Integers, Sequences, FiniteSets, TLC

\* The clock's last value: reads stop advancing once it is reached.
MaxClock == 3

\* The number of operations a behaviour performs.
MaxSteps == 6

\* The number of operations a behaviour performs when setPhaseStatus is
\* among them.
MaxStepsAll == 2

\* The clock's last value in those behaviours.
MaxClockAll == 2

\* The number of steps and the clock's last value in the behaviours where
\* goOn is taken statement by statement.
MaxStepsGoOn == 5

MaxClockGoOn == 2

\* The number of operations and the clock's last value in the behaviours
\* where two consecutive operations are compared.
MaxStepsRecovery == 4

MaxClockRecovery == 2

\* The number of calls and the clock's last value in the behaviours of the
\* Timeline store used alone.
MaxStepsPhaseTimeline == 2

MaxClockPhaseTimeline == 2

\* The number of operations a behaviour performs when the stored item is
\* also written from outside the store.
MaxStepsStorage == 3

\* The clock's last value in those behaviours.
MaxClockStorage == 2

\* The number of probes, delays and timers the component has pending at once.
MaxTasks == 2

\* The clock's last value in the component's behaviours.
MaxClockTimeline == 2

\* null of a numeric field (number | null).  Timestamps are >= 1.
Null == 0

\* null of a Timeline entry (string | null).
NullStr == "null"

ConnectionPhases ==
    [ CHECK_IF_INSTALLED        |-> "checkIfMetaMaskInstalled",
      CHECK_IF_UNLOCKED         |-> "checkIfMetaMaskUnlocked",
      CHECK_IF_CONNECTED_TO_BSC |-> "checkIfMetaMaskConnectedToBSC",
      CHECK_OUT_ACCOUNT         |-> "checkOutMetaMaskAccount" ]

PhaseStatuses ==
    [ WAITING     |-> "waiting",
      IN_PROGRESS |-> "inprogress",
      SUCCESS     |-> "success",
      FAIL        |-> "fail",
      CANCELLED   |-> "cancelled" ]

\* Object.values(ConnectionPhases), Object.values(PhaseStatuses)
Phases == { ConnectionPhases[k] : k \in DOMAIN ConnectionPhases }

Statuses == { PhaseStatuses[k] : k \in DOMAIN PhaseStatuses }

phaseOrder ==
    << ConnectionPhases.CHECK_IF_INSTALLED,
       ConnectionPhases.CHECK_IF_UNLOCKED,
       ConnectionPhases.CHECK_IF_CONNECTED_TO_BSC,
       ConnectionPhases.CHECK_OUT_ACCOUNT >>

\* phaseOrder.indexOf(p), 1-based
indexOf(p) == CHOOSE i \in 1..Len(phaseOrder) : phaseOrder[i] = p

initialStatuses == [ p \in Phases |-> PhaseStatuses.WAITING ]

initialTimestamps == [ p \in Phases |-> Null ]

\* new Date(t).toISOString() for t whole minutes after the epoch.
IsoStrings ==
    << "1970-01-01T00:01:00.000Z", "1970-01-01T00:02:00.000Z",
       "1970-01-01T00:03:00.000Z", "1970-01-01T00:04:00.000Z",
       "1970-01-01T00:05:00.000Z", "1970-01-01T00:06:00.000Z",
       "1970-01-01T00:07:00.000Z", "1970-01-01T00:08:00.000Z" >>

toISOString(t) == IsoStrings[t]

\* new Date(s).getTime(): the instant an ISO string names (Null for null).
DateParse(s) ==
    IF s = NullStr THEN Null
    ELSE CHOOSE t \in 1..Len(IsoStrings) : IsoStrings[t] = s

createInitialTimeline == [ p \in Phases |-> [ s \in Statuses |-> NullStr ] ]

VARIABLES
    firstTimeConnection,        \* ConnectionStoreState
    lastSuccessfulConnection,
    currentPhase,
    phaseStatuses,
    phaseTimestamps,
    timeline,                   \* usePhaseTimelineStore
    storage,                    \* localStorage["connection-storage"]
    now,                        \* the clock's latest read
    lastOp,                     \* the operation that made the latest step
    opArgs,                     \* its arguments, if it takes any
    prevOp,                     \* the operation before it, where a property compares two
    pc,                         \* where a goOn in progress stands, and its locals
    steps,                      \* the number of operations performed
    phasesState,                \* MetaMaskConnectionTimeline: useState values
    stageTimestamps,            \*   its phaseTimestamps
    isProcessing,
    isFinished,
    checkers,                   \*   the phases whose onCheck... prop is given
    tasks,                      \*   pending probes, delays and timers
    callback                    \*   the prop callback the latest step invoked

storeVars == << firstTimeConnection, lastSuccessfulConnection, currentPhase,
                phaseStatuses, phaseTimestamps, timeline, storage, steps >>

timelineVars == << phasesState, stageTimestamps, isProcessing, isFinished,
                   checkers, tasks, callback >>

vars == << firstTimeConnection, lastSuccessfulConnection, currentPhase,
           phaseStatuses, phaseTimestamps, timeline, storage, now, lastOp,
           opArgs, prevOp, pc, steps, phasesState, stageTimestamps, isProcessing,
           isFinished, checkers, tasks, callback >>

\* No operation of the store is under way.
Idle == [ at |-> "idle", reads |-> << >> ]

\* The non-decreasing n-tuples of clock reads an operation can make.
Reads(n) ==
    { r \in [1..n -> now..MaxClock] :
        \A i \in 1..n : \A j \in 1..n : i <= j => r[i] <= r[j] }

\* setTimestamp that records nothing.
setTimestamp_dropped(tl, phase, status, timestamp) == tl

\* setTimestamp without the spread of the phase's other entries.
setTimestamp_clearing(tl, phase, status, timestamp) ==
    [ tl EXCEPT ![phase] = [ st \in DOMAIN tl[phase] |->
                               IF st = status THEN timestamp ELSE NullStr ] ]

\* usePhaseTimelineStore.setTimestamp(phase, status, timestamp)
setTimestamp(tl, phase, status, timestamp) ==
    [ tl EXCEPT ![phase] = [ tl[phase] EXCEPT ![status] = timestamp ] ]

\* A record without fields: {} .
EmptyRecord == [ f \in {} |-> Null ]

\* The version persist gives a stored item when the options name none.
persistVersion == 0

\* localStorage without the item "connection-storage".
AbsentItem ==
    [ present |-> FALSE, version |-> persistVersion,
      isObject |-> FALSE, state |-> EmptyRecord ]

\* partialize that stores the phase statuses as well.
partialize_withStatuses(ftc, last) ==
    [ firstTimeConnection |-> ftc,
      lastSuccessfulConnection |-> last,
      phaseStatuses |-> initialStatuses ]

\* persist's partialize: the two fields that are written to storage.
partialize(ftc, last) ==
    [ firstTimeConnection |-> ftc,
      lastSuccessfulConnection |-> last ]

\* persist's setItem: the item {state, version} written under the key.
setItem(state) ==
    [ present |-> TRUE, version |-> persistVersion,
      isObject |-> TRUE, state |-> state ]

(***************************************************************************)
(* MetaMaskConnectionTimeline: constants and the state after mounting.     *)
(* The component is rendered without the `phases` prop.                     *)
(***************************************************************************)

MMConnectionPhases ==
    [ CHECK_IF_INSTALLED        |-> "checkIfMetaMaskInstalled",
      CHECK_IF_UNLOCKED         |-> "checkIfMetaMaskUnlocked",
      CHECK_IF_CONNECTED_TO_BSC |-> "checkIfMetaMaskConnectedToBSC",
      CHECK_OUT_ACCOUNT         |-> "checkOutMetaMaskAccount" ]

MMConnectionStates ==
    [ WAITING     |-> "waiting",
      IN_PROGRESS |-> "inprogress",
      SUCCESS     |-> "success",
      FAIL        |-> "fail" ]

MMPhases == { MMConnectionPhases[k] : k \in DOMAIN MMConnectionPhases }

\* The component's own phaseOrder.
mmPhaseOrder ==
    << MMConnectionPhases.CHECK_IF_INSTALLED,
       MMConnectionPhases.CHECK_IF_UNLOCKED,
       MMConnectionPhases.CHECK_IF_CONNECTED_TO_BSC,
       MMConnectionPhases.CHECK_OUT_ACCOUNT >>

\* mmPhaseOrder.indexOf(p), 1-based
mmIndexOf(p) == CHOOSE i \in 1..Len(mmPhaseOrder) : mmPhaseOrder[i] = p

initialPhases ==
    [ p \in MMPhases |->
        IF p = MMConnectionPhases.CHECK_IF_INSTALLED
        THEN MMConnectionStates.IN_PROGRESS
        ELSE MMConnectionStates.WAITING ]

initialStageTimestamps == [ p \in MMPhases |-> NullStr ]

\* formatDateTime() in the en locale, for t whole minutes after the epoch.
FormattedStrings ==
    << "Jan 1 00:01:00", "Jan 1 00:02:00", "Jan 1 00:03:00", "Jan 1 00:04:00",
       "Jan 1 00:05:00", "Jan 1 00:06:00", "Jan 1 00:07:00", "Jan 1 00:08:00" >>

formatDateTime(t) == FormattedStrings[t]

\* The component's currentPhase (useMemo): the first phase in progress, else
\* the first one that is not successful, else the first phase.
timelineCurrentPhase(ps) ==
    LET inProgress == { i \in 1..Len(mmPhaseOrder) :
                          ps[mmPhaseOrder[i]] = MMConnectionStates.IN_PROGRESS }
        notSuccess == { i \in 1..Len(mmPhaseOrder) :
                          ps[mmPhaseOrder[i]] # MMConnectionStates.SUCCESS }
        first(S)   == CHOOSE i \in S : \A j \in S : i <= j
    IN  IF inProgress # {} THEN mmPhaseOrder[first(inProgress)]
        ELSE IF notSuccess # {} THEN mmPhaseOrder[first(notSuccess)]
        ELSE MMConnectionPhases.CHECK_IF_INSTALLED

\* isWaiting() that looks at the first phase only.
isWaiting_first(ps) ==
    ps[mmPhaseOrder[1]] = MMConnectionStates.IN_PROGRESS

\* isWaiting() of the render of the statuses ps: phaseOrder.some(...).
isWaiting(ps) ==
    \E i \in 1..Len(mmPhaseOrder) :
        ps[mmPhaseOrder[i]] = MMConnectionStates.IN_PROGRESS

\* A slot holding nothing.
IdleTask ==
    [ kind         |-> "idle",
      phase        |-> MMConnectionPhases.CHECK_IF_INSTALLED,
      isProcessing |-> FALSE,
      result       |-> FALSE,
      fromProbe    |-> FALSE,
      stale        |-> FALSE ]

\* checker() called by runPhaseCheck for `phase`: the promise is pending, and
\* the goOn and breakProcess it will call are those of the render that ran
\* the effect, which see that render's isProcessing.
ProbeTask(phase, renderedIsProcessing) ==
    [ kind         |-> "probe",
      phase        |-> phase,
      isProcessing |-> renderedIsProcessing,
      result       |-> FALSE,
      fromProbe    |-> TRUE,
      stale        |-> FALSE ]

\* The first slot that holds nothing.
FreeSlot(ts) ==
    CHOOSE i \in 1..MaxTasks :
        /\ ts[i].kind = "idle"
        /\ \A j \in 1..(i - 1) : ts[j].kind # "idle"

HasFreeSlot(ts) == \E i \in 1..MaxTasks : ts[i].kind = "idle"

\* The sets of onCheck... props a component is rendered with: all four
\* checkers, the first two, or none (the phases are then driven by the ref).
CheckerSets ==
    { MMPhases,
      { MMConnectionPhases.CHECK_IF_INSTALLED, MMConnectionPhases.CHECK_IF_UNLOCKED },
      {} }

\* The component after mounting with the probes cs: the effect of the first
\* phase has run and, if its probe is given, has started it.
Mounted(cs) ==
    /\ checkers = cs
    /\ phasesState = initialPhases
    /\ stageTimestamps = initialStageTimestamps
    /\ isFinished = FALSE
    /\ isProcessing = (MMConnectionPhases.CHECK_IF_INSTALLED \in cs)
    /\ tasks = [ i \in 1..MaxTasks |->
                   IF i = 1 /\ MMConnectionPhases.CHECK_IF_INSTALLED \in cs
                   THEN ProbeTask(MMConnectionPhases.CHECK_IF_INSTALLED, FALSE)
                   ELSE IdleTask ]
    /\ callback = "none"

\* Both stores as constructed over an empty storage.
StoreInit ==
    /\ firstTimeConnection = TRUE
    /\ lastSuccessfulConnection = Null
    /\ currentPhase = ConnectionPhases.CHECK_IF_INSTALLED
    /\ phaseStatuses = initialStatuses
    /\ phaseTimestamps = initialTimestamps
    /\ timeline = createInitialTimeline
    /\ storage = AbsentItem
    /\ now = 1
    /\ lastOp = "create"
    /\ opArgs = << >>
    /\ prevOp = "none"
    /\ pc = Idle
    /\ steps = 0

Init ==
    /\ StoreInit
    /\ Mounted(MMPhases)

\* firstStart that also resets the statuses of the other phases.
firstStart_resetting ==
    \E r \in Reads(2) :
        /\ timeline' = setTimestamp(timeline, ConnectionPhases.CHECK_IF_INSTALLED,
                                    PhaseStatuses.IN_PROGRESS, toISOString(r[1]))
        /\ currentPhase' = ConnectionPhases.CHECK_IF_INSTALLED
        /\ phaseStatuses' = [ initialStatuses EXCEPT
               ![ConnectionPhases.CHECK_IF_INSTALLED] = PhaseStatuses.IN_PROGRESS ]
        /\ phaseTimestamps' = [ phaseTimestamps EXCEPT
               ![ConnectionPhases.CHECK_IF_INSTALLED] = r[2] ]
        /\ firstTimeConnection' = FALSE
        /\ UNCHANGED lastSuccessfulConnection
        /\ storage' = setItem(partialize(FALSE, lastSuccessfulConnection))
        /\ now' = r[2]
        /\ lastOp' = "firstStart"

firstStart ==
    \E r \in Reads(2) :
        /\ timeline' = setTimestamp(timeline, ConnectionPhases.CHECK_IF_INSTALLED,
                                    PhaseStatuses.IN_PROGRESS, toISOString(r[1]))
        /\ currentPhase' = ConnectionPhases.CHECK_IF_INSTALLED
        /\ phaseStatuses' = [ phaseStatuses EXCEPT
               ![ConnectionPhases.CHECK_IF_INSTALLED] = PhaseStatuses.IN_PROGRESS ]
        /\ phaseTimestamps' = [ phaseTimestamps EXCEPT
               ![ConnectionPhases.CHECK_IF_INSTALLED] = r[2] ]
        /\ firstTimeConnection' = FALSE
        /\ UNCHANGED lastSuccessfulConnection
        /\ storage' = setItem(partialize(FALSE, lastSuccessfulConnection))
        /\ now' = r[2]
        /\ lastOp' = "firstStart"

\* reStart that does not clear the Timeline.
reStart_keepingTimeline ==
    \E r \in Reads(2) :
        /\ timeline' = setTimestamp(timeline,
                                    ConnectionPhases.CHECK_IF_INSTALLED,
                                    PhaseStatuses.IN_PROGRESS, toISOString(r[1]))
        /\ currentPhase' = ConnectionPhases.CHECK_IF_INSTALLED
        /\ phaseStatuses' = [ phaseStatuses EXCEPT
               ![ConnectionPhases.CHECK_IF_INSTALLED] = PhaseStatuses.IN_PROGRESS ]
        /\ phaseTimestamps' = [ phaseTimestamps EXCEPT
               ![ConnectionPhases.CHECK_IF_INSTALLED] = r[2] ]
        /\ UNCHANGED << firstTimeConnection, lastSuccessfulConnection >>
        /\ storage' = setItem(partialize(firstTimeConnection, lastSuccessfulConnection))
        /\ now' = r[2]
        /\ lastOp' = "reStart"

reStart ==
    \E r \in Reads(2) :
        /\ timeline' = setTimestamp(createInitialTimeline,
                                    ConnectionPhases.CHECK_IF_INSTALLED,
                                    PhaseStatuses.IN_PROGRESS, toISOString(r[1]))
        /\ currentPhase' = ConnectionPhases.CHECK_IF_INSTALLED
        /\ phaseStatuses' = [ phaseStatuses EXCEPT
               ![ConnectionPhases.CHECK_IF_INSTALLED] = PhaseStatuses.IN_PROGRESS ]
        /\ phaseTimestamps' = [ phaseTimestamps EXCEPT
               ![ConnectionPhases.CHECK_IF_INSTALLED] = r[2] ]
        /\ UNCHANGED << firstTimeConnection, lastSuccessfulConnection >>
        /\ storage' = setItem(partialize(firstTimeConnection, lastSuccessfulConnection))
        /\ now' = r[2]
        /\ lastOp' = "reStart"

\* nextPhase one phase too far.
nextPhaseOf_skipping(currentIndex) ==
    IF currentIndex + 2 > Len(phaseOrder) THEN "" ELSE phaseOrder[currentIndex + 2]

\* nextPhase that starts over after the last phase.
nextPhaseOf_wrapping(currentIndex) ==
    phaseOrder[(currentIndex % Len(phaseOrder)) + 1]

\* goOn's nextPhase: the phase after index i, or none ("") for the last one.
nextPhaseOf(currentIndex) ==
    IF currentIndex = Len(phaseOrder) THEN "" ELSE phaseOrder[currentIndex + 1]

\* isLast that holds of every phase.
isLastIndex_always(currentIndex) == TRUE

\* goOn's isLast
isLastIndex(currentIndex) == currentIndex = Len(phaseOrder)

\* goOn that marks the current phase only and starts no next phase.
goOnStatuses_currentOnly(statuses, phase, nextPhase) ==
    [ statuses EXCEPT ![phase] = PhaseStatuses.SUCCESS ]

\* goOn's statuses: the current phase succeeds, the next one (if any) starts.
goOnStatuses(statuses, phase, nextPhase) ==
    IF nextPhase # ""
    THEN [ statuses EXCEPT ![phase] = PhaseStatuses.SUCCESS,
                           ![nextPhase] = PhaseStatuses.IN_PROGRESS ]
    ELSE [ statuses EXCEPT ![phase] = PhaseStatuses.SUCCESS ]

\* Reads of goOn: r[1] line 409, r[2] line 413 (setTimestamp's default),
\* r[3] line 418 and r[4] line 419 when a next phase exists, and a last
\* read, line 428, when the current phase is the last one.
goOn ==
    LET currentIndex == indexOf(currentPhase)
        isLast       == isLastIndex(currentIndex)
        nextPhase    == nextPhaseOf(currentIndex)
        n            == 2 + (IF nextPhase # "" THEN 2 ELSE 0)
                          + (IF isLast THEN 1 ELSE 0)
    IN  \E r \in Reads(n) :
        LET tl1 == setTimestamp(timeline, currentPhase,
                                PhaseStatuses.SUCCESS, toISOString(r[2]))
            ts1 == [ phaseTimestamps EXCEPT ![currentPhase] = r[1] ]
        IN  /\ phaseStatuses' = goOnStatuses(phaseStatuses, currentPhase, nextPhase)
            /\ IF nextPhase # ""
               THEN /\ phaseTimestamps' = [ ts1 EXCEPT ![nextPhase] = r[3] ]
                    /\ timeline' = setTimestamp(tl1, nextPhase,
                                       PhaseStatuses.IN_PROGRESS, toISOString(r[4]))
                    /\ currentPhase' = nextPhase
               ELSE /\ phaseTimestamps' = ts1
                    /\ timeline' = tl1
                    /\ currentPhase' = currentPhase
            /\ lastSuccessfulConnection' =
                   IF isLast THEN r[n] ELSE lastSuccessfulConnection
            /\ UNCHANGED firstTimeConnection
            /\ storage' = setItem(partialize(firstTimeConnection, lastSuccessfulConnection'))
            /\ now' = r[n]
            /\ lastOp' = "goOn"

\* goFail and cancel: the current phase takes `status`.
\* r[1] is setTimestamp's default (lines 465, 506), r[2] Date.now() (475, 516).
finishCurrent(status, op) ==
    \E r \in Reads(2) :
        /\ timeline' = setTimestamp(timeline, currentPhase, status, toISOString(r[1]))
        /\ phaseStatuses' = [ phaseStatuses EXCEPT ![currentPhase] = status ]
        /\ phaseTimestamps' = [ phaseTimestamps EXCEPT ![currentPhase] = r[2] ]
        /\ UNCHANGED << currentPhase, firstTimeConnection, lastSuccessfulConnection >>
        /\ storage' = setItem(partialize(firstTimeConnection, lastSuccessfulConnection))
        /\ now' = r[2]
        /\ lastOp' = op

\* goFail that forgets the last successful connection.
goFail_forgetting ==
    \E r \in Reads(2) :
        /\ timeline' = setTimestamp(timeline, currentPhase, PhaseStatuses.FAIL,
                                    toISOString(r[1]))
        /\ phaseStatuses' = [ phaseStatuses EXCEPT ![currentPhase] = PhaseStatuses.FAIL ]
        /\ phaseTimestamps' = [ phaseTimestamps EXCEPT ![currentPhase] = r[2] ]
        /\ lastSuccessfulConnection' = Null
        /\ UNCHANGED << currentPhase, firstTimeConnection >>
        /\ storage' = setItem(partialize(firstTimeConnection, Null))
        /\ now' = r[2]
        /\ lastOp' = "goFail"

\* cancel that moves currentPhase on to the next phase.
cancel_advancing ==
    \E r \in Reads(2) :
        /\ timeline' = setTimestamp(timeline, currentPhase, PhaseStatuses.CANCELLED,
                                    toISOString(r[1]))
        /\ phaseStatuses' = [ phaseStatuses EXCEPT ![currentPhase] = PhaseStatuses.CANCELLED ]
        /\ phaseTimestamps' = [ phaseTimestamps EXCEPT ![currentPhase] = r[2] ]
        /\ currentPhase' = IF nextPhaseOf(indexOf(currentPhase)) # ""
                           THEN nextPhaseOf(indexOf(currentPhase)) ELSE currentPhase
        /\ UNCHANGED << firstTimeConnection, lastSuccessfulConnection >>
        /\ storage' = setItem(partialize(firstTimeConnection, lastSuccessfulConnection))
        /\ now' = r[2]
        /\ lastOp' = "cancel"

goFail == finishCurrent(PhaseStatuses.FAIL, "goFail")

cancel == finishCurrent(PhaseStatuses.CANCELLED, "cancel")

\* newTimestamp that never reads the clock.
newTimestamp_existing(status, existing, t) == existing

\* newTimestamp that forgets the existing timestamp of a waiting phase.
newTimestamp_cleared(status, existing, t) ==
    IF status # PhaseStatuses.WAITING THEN t ELSE Null

\* setPhaseStatus's newTimestamp: the clock's value t, or for waiting the
\* timestamp the phase has.
newTimestamp(status, existing, t) ==
    IF status # PhaseStatuses.WAITING THEN t ELSE existing

\* setPhaseStatus that changes the status of the current phase only.
setPhaseStatus_guarded(phase, status) ==
    /\ IF status # PhaseStatuses.WAITING
       THEN \E r \in Reads(2) :
              /\ phaseTimestamps' = [ phaseTimestamps EXCEPT ![phase] =
                                        newTimestamp(status, phaseTimestamps[phase], r[1]) ]
              /\ timeline' = setTimestamp(timeline, phase, status, toISOString(r[2]))
              /\ now' = r[2]
       ELSE /\ phaseTimestamps' = [ phaseTimestamps EXCEPT ![phase] =
                                        newTimestamp(status, phaseTimestamps[phase], now) ]
            /\ UNCHANGED << timeline, now >>
    /\ phaseStatuses' = IF phase = currentPhase
                        THEN [ phaseStatuses EXCEPT ![phase] = status ]
                        ELSE phaseStatuses
    /\ UNCHANGED << currentPhase, firstTimeConnection, lastSuccessfulConnection >>
    /\ storage' = setItem(partialize(firstTimeConnection, lastSuccessfulConnection))
    /\ lastOp' = "setPhaseStatus"

\* r[1] is Date.now() (line 548), r[2] setTimestamp's default (line 553);
\* status waiting reads no clock.
setPhaseStatus(phase, status) ==
    /\ IF status # PhaseStatuses.WAITING
       THEN \E r \in Reads(2) :
              /\ phaseTimestamps' = [ phaseTimestamps EXCEPT ![phase] =
                                        newTimestamp(status, phaseTimestamps[phase], r[1]) ]
              /\ timeline' = setTimestamp(timeline, phase, status, toISOString(r[2]))
              /\ now' = r[2]
       ELSE /\ phaseTimestamps' = [ phaseTimestamps EXCEPT ![phase] =
                                        newTimestamp(status, phaseTimestamps[phase], now) ]
            /\ UNCHANGED << timeline, now >>
    /\ phaseStatuses' = [ phaseStatuses EXCEPT ![phase] = status ]
    /\ UNCHANGED << currentPhase, firstTimeConnection, lastSuccessfulConnection >>
    /\ storage' = setItem(partialize(firstTimeConnection, lastSuccessfulConnection))
    /\ lastOp' = "setPhaseStatus"

\* resetStatuses that resets the two persisted fields as well.
resetStatuses_full ==
    /\ timeline' = createInitialTimeline
    /\ firstTimeConnection' = TRUE
    /\ lastSuccessfulConnection' = Null
    /\ currentPhase' = ConnectionPhases.CHECK_IF_INSTALLED
    /\ phaseStatuses' = initialStatuses
    /\ phaseTimestamps' = initialTimestamps
    /\ storage' = setItem(partialize(TRUE, Null))
    /\ UNCHANGED now
    /\ lastOp' = "resetStatuses"

resetStatuses ==
    /\ timeline' = createInitialTimeline
    /\ currentPhase' = ConnectionPhases.CHECK_IF_INSTALLED
    /\ phaseStatuses' = initialStatuses
    /\ phaseTimestamps' = initialTimestamps
    /\ UNCHANGED << firstTimeConnection, lastSuccessfulConnection, now >>
    /\ storage' = setItem(partialize(firstTimeConnection, lastSuccessfulConnection))
    /\ lastOp' = "resetStatuses"

\* fullReset that keeps the two persisted fields.
fullReset_keepingPersisted ==
    /\ timeline' = createInitialTimeline
    /\ currentPhase' = ConnectionPhases.CHECK_IF_INSTALLED
    /\ phaseStatuses' = initialStatuses
    /\ phaseTimestamps' = initialTimestamps
    /\ UNCHANGED << firstTimeConnection, lastSuccessfulConnection, now >>
    /\ storage' = setItem(partialize(firstTimeConnection, lastSuccessfulConnection))
    /\ lastOp' = "fullReset"

fullReset ==
    /\ timeline' = createInitialTimeline
    /\ firstTimeConnection' = TRUE
    /\ lastSuccessfulConnection' = Null
    /\ currentPhase' = ConnectionPhases.CHECK_IF_INSTALLED
    /\ phaseStatuses' = initialStatuses
    /\ phaseTimestamps' = initialTimestamps
    /\ storage' = setItem(partialize(TRUE, Null))
    /\ UNCHANGED now
    /\ lastOp' = "fullReset"

\* CONNECTION_RESET_TIMEOUT_MINUTES of @/constants/connection, in minutes.
CONNECTION_RESET_TIMEOUT_MINUTES == 1

\* The state the creator falls back to (get() ?? {...}).
defaultState ==
    [ firstTimeConnection      |-> TRUE,
      lastSuccessfulConnection |-> Null,
      currentPhase             |-> ConnectionPhases.CHECK_IF_INSTALLED,
      phaseStatuses            |-> initialStatuses,
      phaseTimestamps          |-> initialTimestamps ]

\* What get() returns while zustand runs the creator: create() assigns the
\* store's state only once the creator has returned, so it is undefined.
getDuringCreate == [ defined |-> FALSE, state |-> EmptyRecord ]

\* The creator's result: initialState (get() ?? {...}) with the timeout rule
\* applied.  diffMinutes = last ? (now - last) / 1000 / 60 : Infinity is an
\* exact quotient, so diffMinutes > TIMEOUT compares the clock's difference.
creatorState(got, t) ==
    LET initialState == IF got.defined THEN got.state ELSE defaultState
        last         == initialState.lastSuccessfulConnection
        shouldReset  == IF last # Null
                        THEN (t - last) > CONNECTION_RESET_TIMEOUT_MINUTES
                        ELSE TRUE
    IN  [ initialState EXCEPT !.firstTimeConnection = shouldReset ]

\* persist's default merge: { ...currentState, ...persistedState }.
merge(persistedState, currentState) ==
    [ f \in (DOMAIN currentState) \cup (DOMAIN persistedState) |->
        IF f \in DOMAIN persistedState THEN persistedState[f] ELSE currentState[f] ]

\* migrate reads persistedState.lastSuccessfulConnection: a TypeError when
\* the stored state is null or missing.
migrateThrows(stored) == ~stored.isObject

\* migrate of a stored object: { ...persistedState, f: persistedState.f ?? d }
\* for lastSuccessfulConnection, phaseStatuses and phaseTimestamps.
migrate(persistedState) ==
    [ f \in (DOMAIN persistedState) \cup
            { "lastSuccessfulConnection", "phaseStatuses", "phaseTimestamps" } |->
        IF f \in DOMAIN persistedState THEN persistedState[f]
        ELSE IF f = "lastSuccessfulConnection" THEN Null
        ELSE IF f = "phaseStatuses" THEN initialStatuses
        ELSE initialTimestamps ]

\* The stored item has another version than the options: migrate is called.
needsMigration(stored) == stored.present /\ stored.version # persistVersion

\* persist's hydration: the stored state, migrated if its version differs, is
\* merged over the creator's result.  No stored item, or a migrate that
\* throws, leaves the creator's result as it is.
hydrate(configResult, stored) ==
    IF ~stored.present THEN configResult
    ELSE IF ~needsMigration(stored) THEN merge(stored.state, configResult)
    ELSE IF migrateThrows(stored) THEN configResult
    ELSE merge(migrate(stored.state), configResult)

\* Construction in which the creator's get() already returns the stored
\* record and nothing is merged afterwards.
constructed_fromGet(stored, t) ==
    creatorState([ defined |-> stored.present,
                   state   |-> merge(stored.state, defaultState) ], t)

\* create(persist(creator, options)) at time t over the stored item.
constructed(stored, t) == hydrate(creatorState(getDuringCreate, t), stored)

\* The stored item after hydration: a migrated state is written back through
\* partialize, anything else is left as it was.
afterHydration(stored, c) ==
    IF needsMigration(stored) /\ ~migrateThrows(stored)
    THEN setItem(partialize(c.firstTimeConnection, c.lastSuccessfulConnection))
    ELSE stored

\* The page is loaded again: both stores are created anew over the storage
\* the last session left.
Reload ==
    \E r \in Reads(1) :
        LET c == constructed(storage, r[1])
        IN  /\ firstTimeConnection' = c.firstTimeConnection
            /\ lastSuccessfulConnection' = c.lastSuccessfulConnection
            /\ currentPhase' = c.currentPhase
            /\ phaseStatuses' = c.phaseStatuses
            /\ phaseTimestamps' = c.phaseTimestamps
            /\ timeline' = createInitialTimeline
            /\ storage' = afterHydration(storage, c)
            /\ now' = r[1]
            /\ lastOp' = "Reload"

\* One operation of the store, counted.
Step(op) ==
    /\ steps < MaxSteps
    /\ op
    /\ opArgs' = << >>
    /\ UNCHANGED << prevOp, pc >>
    /\ steps' = steps + 1
    /\ UNCHANGED timelineVars

Next ==
    \/ Step(firstStart)
    \/ Step(reStart)
    \/ Step(goOn)
    \/ Step(goFail)
    \/ Step(cancel)
    \/ Step(resetStatuses)
    \/ Step(fullReset)
    \/ Step(Reload)

Spec == Init /\ [][Next]_vars

\* One operation of the store or an out-of-band setPhaseStatus, counted.
StepAll(op) ==
    /\ steps < MaxStepsAll
    /\ op
    /\ now' <= MaxClockAll
    /\ opArgs' = << >>
    /\ UNCHANGED << prevOp, pc >>
    /\ steps' = steps + 1
    /\ UNCHANGED timelineVars

\* setPhaseStatus called with any phase and status, counted.
StepSetPhaseStatus ==
    /\ steps < MaxStepsAll
    /\ \E phase \in Phases, status \in Statuses :
          /\ setPhaseStatus(phase, status)
          /\ opArgs' = << phase, status >>
          /\ UNCHANGED << prevOp, pc >>
    /\ now' <= MaxClockAll
    /\ steps' = steps + 1
    /\ UNCHANGED timelineVars

NextAll ==
    \/ StepAll(firstStart)
    \/ StepAll(reStart)
    \/ StepAll(goOn)
    \/ StepAll(goFail)
    \/ StepAll(cancel)
    \/ StepAll(resetStatuses)
    \/ StepAll(fullReset)
    \/ StepAll(Reload)
    \/ StepSetPhaseStatus

\* The Timeline after firstStart() and four goOn() at the instant t.
completedTimeline(t) ==
    [ p \in Phases |->
        [ s \in Statuses |->
            IF s \in { PhaseStatuses.IN_PROGRESS, PhaseStatuses.SUCCESS }
            THEN toISOString(t) ELSE NullStr ] ]

\* The stores after a completed connection: firstStart() and four goOn(),
\* all within the clock's first minute.
Connected ==
    /\ firstTimeConnection = FALSE
    /\ lastSuccessfulConnection = 1
    /\ currentPhase = ConnectionPhases.CHECK_OUT_ACCOUNT
    /\ phaseStatuses = [ p \in Phases |-> PhaseStatuses.SUCCESS ]
    /\ phaseTimestamps = [ p \in Phases |-> 1 ]
    /\ timeline = completedTimeline(1)
    /\ storage = setItem(partialize(FALSE, 1))
    /\ now = 1
    /\ lastOp = "goOn"
    /\ opArgs = << >>
    /\ prevOp = "none"
    /\ pc = Idle
    /\ steps = 0

\* The behaviours with setPhaseStatus start from the fresh stores or from a
\* completed connection.
InitAll ==
    /\ StoreInit \/ Connected
    /\ Mounted(MMPhases)

SpecAll == InitAll /\ [][NextAll]_vars

(***************************************************************************)
(* The stored item as the browser may hold it.  localStorage belongs to    *)
(* the page's origin: an earlier build of the application, another tab or  *)
(* the user can leave any item under the store's key.                      *)
(***************************************************************************)

StoredFields ==
    { "firstTimeConnection", "lastSuccessfulConnection",
      "phaseStatuses", "phaseTimestamps" }

\* Phase statuses and timestamps a stored item carries.
carriedStatuses == [ p \in Phases |-> PhaseStatuses.SUCCESS ]

carriedTimestamps == [ p \in Phases |-> 1 ]

\* The stored state object with the fields D.
StoredState(D, ftc, last) ==
    [ f \in D |->
        IF f = "firstTimeConnection" THEN ftc
        ELSE IF f = "lastSuccessfulConnection" THEN last
        ELSE IF f = "phaseStatuses" THEN carriedStatuses
        ELSE carriedTimestamps ]

StoredStates ==
    { StoredState(D, ftc, last) :
        D \in SUBSET StoredFields, ftc \in BOOLEAN, last \in { Null, 1 } }

\* The versions a stored item has: the current one or another one.
StoredVersions == { persistVersion, persistVersion + 1 }

\* No item, an item whose state is an object, an item whose state is null.
StoredItems ==
    { AbsentItem }
    \cup { [ present |-> TRUE, version |-> v, isObject |-> TRUE, state |-> st ] :
             v \in StoredVersions, st \in StoredStates }
    \cup { [ present |-> TRUE, version |-> v, isObject |-> FALSE,
             state |-> EmptyRecord ] : v \in StoredVersions }

\* The item is written from outside the store.
StorageWritten ==
    /\ \E item \in StoredItems : storage' = item
    /\ UNCHANGED << firstTimeConnection, lastSuccessfulConnection, currentPhase,
                    phaseStatuses, phaseTimestamps, timeline, now >>
    /\ lastOp' = "StorageWritten"

\* One operation of the store or a write of the item, counted.
StepStorage(op) ==
    /\ steps < MaxStepsStorage
    /\ op
    /\ now' <= MaxClockStorage
    /\ opArgs' = << >>
    /\ UNCHANGED << prevOp, pc >>
    /\ steps' = steps + 1
    /\ UNCHANGED timelineVars

NextStorage ==
    \/ StepStorage(StorageWritten)
    \/ StepStorage(Reload)
    \/ StepStorage(firstStart)
    \/ StepStorage(reStart)
    \/ StepStorage(goOn)
    \/ StepStorage(goFail)
    \/ StepStorage(cancel)
    \/ StepStorage(resetStatuses)
    \/ StepStorage(fullReset)

SpecStorage == Init /\ [][NextStorage]_vars

(***************************************************************************)
(* The store's operations with the previous operation remembered, for the  *)
(* properties that compare an operation applied twice with one application. *)
(***************************************************************************)

StepRecovery(op) ==
    /\ steps < MaxStepsRecovery
    /\ op
    /\ now' <= MaxClockRecovery
    /\ opArgs' = << >>
    /\ prevOp' = lastOp
    /\ UNCHANGED pc
    /\ steps' = steps + 1
    /\ UNCHANGED timelineVars

NextRecovery ==
    \/ StepRecovery(firstStart)
    \/ StepRecovery(reStart)
    \/ StepRecovery(goOn)
    \/ StepRecovery(goFail)
    \/ StepRecovery(cancel)
    \/ StepRecovery(resetStatuses)
    \/ StepRecovery(fullReset)
    \/ StepRecovery(Reload)

SpecRecovery == InitAll /\ [][NextRecovery]_vars

(***************************************************************************)
(* goOn statement by statement.  Each set() of a zustand store notifies    *)
(* its subscribers before it returns, so the states between goOn's two     *)
(* setTimestamp calls and its own set() can be observed.  The operations   *)
(* are called one at a time: none starts while a goOn is under way.        *)
(***************************************************************************)

\* Lines 391-413: get(), Date.now() for the current phase (r[1], line 409)
\* and setTimestamp(currentPhase, SUCCESS) (r[2]).
goOnWriteCurrent ==
    /\ pc = Idle
    /\ \E r \in Reads(2) :
         /\ timeline' = setTimestamp(timeline, currentPhase,
                                     PhaseStatuses.SUCCESS, toISOString(r[2]))
         /\ pc' = [ at |-> "current written", reads |-> << r[1] >> ]
         /\ now' = r[2]
    /\ lastOp' = "goOn: setTimestamp(current)"
    /\ UNCHANGED << firstTimeConnection, lastSuccessfulConnection, currentPhase,
                    phaseStatuses, phaseTimestamps, storage >>

\* Lines 416-420, when a next phase exists: Date.now() for it (r[1]) and
\* setTimestamp(nextPhase, IN_PROGRESS) (r[2]).
goOnWriteNext ==
    /\ pc.at = "current written"
    /\ nextPhaseOf(indexOf(currentPhase)) # ""
    /\ \E r \in Reads(2) :
         /\ timeline' = setTimestamp(timeline, nextPhaseOf(indexOf(currentPhase)),
                                     PhaseStatuses.IN_PROGRESS, toISOString(r[2]))
         /\ pc' = [ at |-> "next written", reads |-> Append(pc.reads, r[1]) ]
         /\ now' = r[2]
    /\ lastOp' = "goOn: setTimestamp(next)"
    /\ UNCHANGED << firstTimeConnection, lastSuccessfulConnection, currentPhase,
                    phaseStatuses, phaseTimestamps, storage >>

\* Lines 423-429: the set() of the Connection store, with Date.now() for
\* lastSuccessfulConnection when the current phase is the last one.
goOnSet ==
    LET currentIndex == indexOf(currentPhase)
        isLast       == isLastIndex(currentIndex)
        nextPhase    == nextPhaseOf(currentIndex)
    IN  /\ \/ pc.at = "next written"
           \/ pc.at = "current written" /\ nextPhase = ""
        /\ phaseStatuses' = goOnStatuses(phaseStatuses, currentPhase, nextPhase)
        /\ phaseTimestamps' =
               IF nextPhase # ""
               THEN [ phaseTimestamps EXCEPT ![currentPhase] = pc.reads[1],
                                             ![nextPhase] = pc.reads[2] ]
               ELSE [ phaseTimestamps EXCEPT ![currentPhase] = pc.reads[1] ]
        /\ currentPhase' = IF nextPhase # "" THEN nextPhase ELSE currentPhase
        /\ IF isLast
           THEN \E r \in Reads(1) : /\ lastSuccessfulConnection' = r[1]
                                    /\ now' = r[1]
           ELSE UNCHANGED << lastSuccessfulConnection, now >>
        /\ UNCHANGED << firstTimeConnection, timeline >>
        /\ storage' = setItem(partialize(firstTimeConnection, lastSuccessfulConnection'))
        /\ pc' = Idle
        /\ lastOp' = "goOn"

\* One statement of goOn, or one whole operation while no goOn is under way.
StepGoOn(op) ==
    /\ steps < MaxStepsGoOn
    /\ op
    /\ now' <= MaxClockGoOn
    /\ opArgs' = << >>
    /\ steps' = steps + 1
    /\ UNCHANGED prevOp
    /\ UNCHANGED timelineVars

WholeOp(op) ==
    /\ pc = Idle
    /\ op
    /\ UNCHANGED pc

NextGoOn ==
    \/ StepGoOn(goOnWriteCurrent)
    \/ StepGoOn(goOnWriteNext)
    \/ StepGoOn(goOnSet)
    \/ StepGoOn(WholeOp(firstStart))
    \/ StepGoOn(WholeOp(reStart))
    \/ StepGoOn(WholeOp(goFail))
    \/ StepGoOn(WholeOp(cancel))
    \/ StepGoOn(WholeOp(resetStatuses))
    \/ StepGoOn(WholeOp(fullReset))

SpecGoOn == InitAll /\ [][NextGoOn]_vars

(***************************************************************************)
(* usePhaseTimelineStore used alone: setTimestamp with any phase, status   *)
(* and timestamp, in any order, and resetTimeline.                         *)
(***************************************************************************)

\* The timestamps a caller passes explicitly.
GivenTimestamps == { toISOString(t) : t \in 1..MaxClockPhaseTimeline }

\* setTimestamp(phase, status, timestamp) with the timestamp given.
setTimestampGiven ==
    \E phase \in Phases, status \in Statuses, timestamp \in GivenTimestamps :
        /\ timeline' = setTimestamp(timeline, phase, status, timestamp)
        /\ opArgs' = << phase, status, timestamp, "given" >>
        /\ UNCHANGED now

\* setTimestamp(phase, status): the timestamp is new Date().toISOString().
setTimestampDefault ==
    \E phase \in Phases, status \in Statuses, r \in Reads(1) :
        /\ timeline' = setTimestamp(timeline, phase, status, toISOString(r[1]))
        /\ opArgs' = << phase, status, toISOString(r[1]), "default" >>
        /\ now' = r[1]

resetTimeline ==
    /\ timeline' = createInitialTimeline
    /\ opArgs' = << >>
    /\ UNCHANGED now

\* One call of the Timeline store; the Connection store is not involved.
StepPhaseTimeline(op, name) ==
    /\ steps < MaxStepsPhaseTimeline
    /\ op
    /\ now' <= MaxClockPhaseTimeline
    /\ lastOp' = name
    /\ prevOp' = lastOp
    /\ UNCHANGED pc
    /\ steps' = steps + 1
    /\ UNCHANGED << firstTimeConnection, lastSuccessfulConnection, currentPhase,
                    phaseStatuses, phaseTimestamps, storage >>
    /\ UNCHANGED timelineVars

NextPhaseTimeline ==
    \/ StepPhaseTimeline(setTimestampGiven, "setTimestamp")
    \/ StepPhaseTimeline(setTimestampDefault, "setTimestamp")
    \/ StepPhaseTimeline(resetTimeline, "resetTimeline")

SpecPhaseTimeline == Init /\ [][NextPhaseTimeline]_vars

(***************************************************************************)
(* MetaMaskConnectionTimeline.  A step is one macrotask of the page: a     *)
(* probe's promise settling, a setTimeout callback, or a call through the  *)
(* component's ref.  The state updates a step queues are rendered in one   *)
(* batch, and the effects of that render are part of the step.             *)
(***************************************************************************)

\* The timer goOn (result) or breakProcess (~result) sets for `phase`.
TimerTask(phase, result, fromProbe, stale) ==
    [ kind         |-> "timer",
      phase        |-> phase,
      isProcessing |-> FALSE,
      result       |-> result,
      fromProbe    |-> fromProbe,
      stale        |-> stale ]

\* The render whose runPhaseCheck does not test isFinished.
Commit_ignoringFinished(ps, ts, proc, fin, pending, cb) ==
    LET phase        == timelineCurrentPhase(ps)
        depsChanged  == \/ phase # timelineCurrentPhase(phasesState)
                        \/ fin # isFinished
        allCompleted == \A p \in MMPhases :
                            ps[p] \in { MMConnectionStates.SUCCESS,
                                        MMConnectionStates.FAIL }
        startProbe   == depsChanged /\ phase \in checkers
    IN  /\ startProbe => HasFreeSlot(pending)
        /\ phasesState' = ps
        /\ stageTimestamps' = ts
        /\ isFinished' = (fin \/ allCompleted)
        /\ isProcessing' = (proc \/ startProbe)
        /\ tasks' = IF startProbe
                    THEN [ pending EXCEPT ![FreeSlot(pending)] = ProbeTask(phase, proc) ]
                    ELSE pending
        /\ callback' = cb
        /\ UNCHANGED checkers

\* The render of the state (ps, ts, proc, fin) with the tasks `pending`, and
\* its effects: the completion check sets isFinished; when currentPhase or
\* isFinished differ from the last render, runPhaseCheck of the current phase
\* runs and, unless finished or without checker, sets isProcessing and calls
\* the checker.
Commit(ps, ts, proc, fin, pending, cb) ==
    LET phase        == timelineCurrentPhase(ps)
        depsChanged  == \/ phase # timelineCurrentPhase(phasesState)
                        \/ fin # isFinished
        allCompleted == \A p \in MMPhases :
                            ps[p] \in { MMConnectionStates.SUCCESS,
                                        MMConnectionStates.FAIL }
        startProbe   == depsChanged /\ ~fin /\ phase \in checkers
    IN  /\ startProbe => HasFreeSlot(pending)
        /\ phasesState' = ps
        /\ stageTimestamps' = ts
        /\ isFinished' = (fin \/ allCompleted)
        /\ isProcessing' = (proc \/ startProbe)
        /\ tasks' = IF startProbe
                    THEN [ pending EXCEPT ![FreeSlot(pending)] = ProbeTask(phase, proc) ]
                    ELSE pending
        /\ callback' = cb
        /\ UNCHANGED checkers

\* goOn() (result) or breakProcess() (~result) as task i's closure calls it:
\* it returns at once if the render it belongs to had isProcessing set.
CallFromTask(i, result) ==
    IF tasks[i].isProcessing
    THEN /\ tasks' = [ tasks EXCEPT ![i] = IdleTask ]
         /\ callback' = "none"
         /\ UNCHANGED << phasesState, stageTimestamps, isProcessing,
                         isFinished, checkers >>
    ELSE Commit(phasesState, stageTimestamps, TRUE, isFinished,
                [ tasks EXCEPT ![i] = TimerTask(tasks[i].phase, result,
                                                tasks[i].fromProbe, tasks[i].stale) ],
                "none")

\* await checker() returns `result`; the setTimeout of waitTime is set.
ProbeResolved(i, result) ==
    /\ tasks[i].kind = "probe"
    /\ tasks' = [ tasks EXCEPT ![i].kind = "delay", ![i].result = result ]
    /\ callback' = "none"
    /\ UNCHANGED << phasesState, stageTimestamps, isProcessing, isFinished,
                    checkers, now >>

\* checker() rejects: run().catch calls breakProcess().
ProbeRejected(i) ==
    /\ tasks[i].kind = "probe"
    /\ CallFromTask(i, FALSE)
    /\ UNCHANGED now

\* The setTimeout of waitTime that calls breakProcess() whatever the result.
DelayElapsed_breaking(i) ==
    /\ tasks[i].kind = "delay"
    /\ CallFromTask(i, FALSE)
    /\ UNCHANGED now

\* The setTimeout of waitTime fires: result ? goOn() : breakProcess().
DelayElapsed(i) ==
    /\ tasks[i].kind = "delay"
    /\ CallFromTask(i, tasks[i].result)
    /\ UNCHANGED now

\* Timer statuses that leave the following phase as it is.
timerStatuses_onlyCurrent(prev, phase, result) ==
    [ prev EXCEPT ![phase] = IF result THEN MMConnectionStates.SUCCESS
                                       ELSE MMConnectionStates.FAIL ]

\* The statuses goOn's timer writes over prev.
timerStatuses(prev, phase, result) ==
    IF ~result
    THEN [ prev EXCEPT ![phase] = MMConnectionStates.FAIL ]
    ELSE IF mmIndexOf(phase) = Len(mmPhaseOrder)
    THEN [ prev EXCEPT ![phase] = MMConnectionStates.SUCCESS ]
    ELSE [ prev EXCEPT ![phase] = MMConnectionStates.SUCCESS,
                       ![mmPhaseOrder[mmIndexOf(phase) + 1]] =
                           MMConnectionStates.IN_PROGRESS ]

\* The setTimeout of minStageTime set by goOn or breakProcess fires.
TimerElapsed(i) ==
    /\ tasks[i].kind = "timer"
    /\ \E r \in Reads(1) :
        LET phase  == tasks[i].phase
            result == tasks[i].result
            isLastPhase == mmIndexOf(phase) = Len(mmPhaseOrder)
            stamped == stageTimestamps[phase] # NullStr
        IN  /\ Commit(timerStatuses(phasesState, phase, result),
                      [ stageTimestamps EXCEPT ![phase] =
                          IF stamped THEN @ ELSE formatDateTime(r[1]) ],
                      FALSE,
                      isFinished \/ (result /\ isLastPhase),
                      [ tasks EXCEPT ![i] = IdleTask ],
                      IF result THEN "onGoOn" ELSE "onBreak")
            /\ now' = IF stamped THEN now ELSE r[1]

\* goOn and breakProcess without their isProcessing test.
CallFromRef_unguarded(result) ==
    /\ HasFreeSlot(tasks)
    /\ Commit(phasesState, stageTimestamps, TRUE, isFinished,
              [ tasks EXCEPT ![FreeSlot(tasks)] =
                  TimerTask(timelineCurrentPhase(phasesState), result,
                            FALSE, FALSE) ],
              "none")
    /\ UNCHANGED now

\* ref.goOn() (result) or ref.break() (~result): the closure of the latest
\* render; ignored while isProcessing.
CallFromRef(result) ==
    /\ IF isProcessing
       THEN /\ callback' = "none"
            /\ UNCHANGED << phasesState, stageTimestamps, isProcessing,
                            isFinished, checkers, tasks >>
       ELSE /\ HasFreeSlot(tasks)
            /\ Commit(phasesState, stageTimestamps, TRUE, isFinished,
                      [ tasks EXCEPT ![FreeSlot(tasks)] =
                          TimerTask(timelineCurrentPhase(phasesState), result,
                                    FALSE, FALSE) ],
                      "none")
    /\ UNCHANGED now

timelineGoOn == CallFromRef(TRUE)

breakProcess == CallFromRef(FALSE)

\* ref.reset(): statuses, timestamps and isFinished are reset, isProcessing
\* and the pending tasks are left as they are.  `stale` marks the tasks that
\* were pending when reset was called.
timelineReset ==
    /\ Commit(initialPhases, initialStageTimestamps, isProcessing, FALSE,
              [ i \in 1..MaxTasks |->
                  IF tasks[i].kind = "idle" THEN tasks[i]
                  ELSE [ tasks[i] EXCEPT !.stale = TRUE ] ],
              "onReset")
    /\ UNCHANGED now

\* One step of the component.
TimelineStep(op, name) ==
    /\ op
    /\ now' <= MaxClockTimeline
    /\ lastOp' = name
    /\ opArgs' = << >>
    /\ UNCHANGED << prevOp, pc >>
    /\ UNCHANGED storeVars

NextTimeline ==
    \/ \E i \in 1..MaxTasks, result \in BOOLEAN :
           TimelineStep(ProbeResolved(i, result), "ProbeResolved")
    \/ \E i \in 1..MaxTasks : TimelineStep(ProbeRejected(i), "ProbeRejected")
    \/ \E i \in 1..MaxTasks : TimelineStep(DelayElapsed(i), "DelayElapsed")
    \/ \E i \in 1..MaxTasks : TimelineStep(TimerElapsed(i), "TimerElapsed")
    \/ TimelineStep(timelineGoOn, "ref.goOn")
    \/ TimelineStep(breakProcess, "ref.break")
    \/ TimelineStep(timelineReset, "ref.reset")

InitTimeline ==
    /\ StoreInit
    /\ \E cs \in CheckerSets : Mounted(cs)

SpecTimeline == InitTimeline /\ [][NextTimeline]_vars

\* The component rendered without checkers and driven through its ref, as
\* the stories Default and WithFailedPhase do.  A timer that has been set
\* fires: the page's event loop runs every setTimeout callback.
NextTimelineRef ==
    \/ \E i \in 1..MaxTasks : TimelineStep(TimerElapsed(i), "TimerElapsed")
    \/ TimelineStep(timelineGoOn, "ref.goOn")
    \/ TimelineStep(breakProcess, "ref.break")
    \/ TimelineStep(timelineReset, "ref.reset")

InitTimelineRef ==
    /\ StoreInit
    /\ Mounted({})

SpecTimelineRef ==
    /\ InitTimelineRef
    /\ [][NextTimelineRef]_vars
    /\ \A i \in 1..MaxTasks :
         WF_vars(TimelineStep(TimerElapsed(i), "TimerElapsed"))

\* The parent renders the component with another function as the checker of
\* `phase` (an inline arrow function is a new one at every render of the
\* parent).  The state is rendered as it is; of the effects only the one of
\* `phase` has a changed dependency and runs runPhaseCheck again.
CheckerChanged(phase) ==
    LET startProbe == /\ ~isFinished
                      /\ timelineCurrentPhase(phasesState) = phase
    IN  /\ phase \in checkers
        /\ startProbe => HasFreeSlot(tasks)
        /\ isProcessing' = (isProcessing \/ startProbe)
        /\ tasks' = IF startProbe
                    THEN [ tasks EXCEPT ![FreeSlot(tasks)] =
                             ProbeTask(phase, isProcessing) ]
                    ELSE tasks
        /\ callback' = "none"
        /\ UNCHANGED << phasesState, stageTimestamps, isFinished, checkers, now >>

\* The component rendered with its four checkers, each of which resolves
\* true, under a parent that may replace them, and with goOn as the only call
\* through the ref.  A pending promise settles and a timer that has been set
\* fires: the page's event loop runs every callback that is due.
NextTimelineProbes ==
    \/ \E i \in 1..MaxTasks :
           TimelineStep(ProbeResolved(i, TRUE), "ProbeResolved")
    \/ \E i \in 1..MaxTasks : TimelineStep(DelayElapsed(i), "DelayElapsed")
    \/ \E i \in 1..MaxTasks : TimelineStep(TimerElapsed(i), "TimerElapsed")
    \/ TimelineStep(timelineGoOn, "ref.goOn")
    \/ \E phase \in MMPhases :
           TimelineStep(CheckerChanged(phase), "CheckerChanged")

InitTimelineProbes ==
    /\ StoreInit
    /\ Mounted(MMPhases)

SpecTimelineProbes ==
    /\ InitTimelineProbes
    /\ [][NextTimelineProbes]_vars
    /\ \A i \in 1..MaxTasks :
         /\ WF_vars(TimelineStep(ProbeResolved(i, TRUE), "ProbeResolved"))
         /\ WF_vars(TimelineStep(DelayElapsed(i), "DelayElapsed"))
         /\ WF_vars(TimelineStep(TimerElapsed(i), "TimerElapsed"))

\* The component under a parent that may replace the checkers.
NextTimelineProps ==
    \/ NextTimeline
    \/ \E phase \in MMPhases :
           TimelineStep(CheckerChanged(phase), "CheckerChanged")

SpecTimelineProps == InitTimeline /\ [][NextTimelineProps]_vars

(***************************************************************************)
(* Properties of the Connection store and its Timeline.                    *)
(***************************************************************************)

FirstPhase == phaseOrder[1]

LastPhase == phaseOrder[Len(phaseOrder)]

InProgressPhases == { p \in Phases : phaseStatuses[p] = PhaseStatuses.IN_PROGRESS }

\* C1: firstStart puts currentPhase on the first phase, and every goOn moves
\* currentPhase to the immediately following phase of phaseOrder (staying on
\* the last one): no phase is skipped and currentPhase never moves back.
C1_PhasesInOrder ==
    [][ /\ lastOp' = "firstStart" => currentPhase' = FirstPhase
        /\ lastOp' = "goOn" =>
             indexOf(currentPhase') =
               IF indexOf(currentPhase) = Len(phaseOrder)
               THEN Len(phaseOrder)
               ELSE indexOf(currentPhase) + 1 ]_vars

\* firstStart and four goOn calls have walked through all four phases.
C1_Witness ==
    /\ lastOp = "goOn"
    /\ steps = 5
    /\ currentPhase = LastPhase
    /\ \A p \in Phases : phaseStatuses[p] = PhaseStatuses.SUCCESS

\* C2: at most one phase has status inProgress (setPhaseStatus excluded).
C2_AtMostOneInProgress == Cardinality(InProgressPhases) <= 1

\* C3: goOn, goFail and cancel change a phase's status to success, fail or
\* cancelled only when it was inProgress before, and applied to a current
\* phase that is not inProgress they change no status and do not advance.
C3_OnlyInProgressMovesOn ==
    [][ lastOp' \in { "goOn", "goFail", "cancel" } =>
          /\ \A p \in Phases :
               ( /\ phaseStatuses'[p] # phaseStatuses[p]
                 /\ phaseStatuses'[p] \in { PhaseStatuses.SUCCESS,
                                            PhaseStatuses.FAIL,
                                            PhaseStatuses.CANCELLED } )
               => phaseStatuses[p] = PhaseStatuses.IN_PROGRESS
          /\ phaseStatuses[currentPhase] # PhaseStatuses.IN_PROGRESS
               => /\ phaseStatuses' = phaseStatuses
                  /\ currentPhase' = currentPhase ]_vars

\* C4: goOn on the last phase sets lastSuccessfulConnection to the current
\* time and leaves currentPhase; goOn on another phase leaves
\* lastSuccessfulConnection unchanged.
C4_TerminalSuccess ==
    [][ lastOp' = "goOn" =>
          IF currentPhase = LastPhase
          THEN /\ lastSuccessfulConnection' = now'
               /\ lastSuccessfulConnection' # Null
               /\ lastSuccessfulConnection' >= now
               /\ currentPhase' = currentPhase
          ELSE lastSuccessfulConnection' = lastSuccessfulConnection ]_vars

\* goOn has just completed the last phase.
C4_Witness ==
    /\ lastOp = "goOn"
    /\ currentPhase = LastPhase
    /\ phaseStatuses[LastPhase] = PhaseStatuses.SUCCESS
    /\ lastSuccessfulConnection = now

RecoveryOps == { "reStart", "firstStart", "resetStatuses", "fullReset", "Reload" }

\* C5: while the current phase has status fail, no operation other than a
\* recovery operation advances currentPhase or starts a later phase.
C5_FailHalts ==
    [][ ( /\ phaseStatuses[currentPhase] = PhaseStatuses.FAIL
          /\ lastOp' \notin RecoveryOps )
        => /\ currentPhase' = currentPhase
           /\ \A p \in Phases :
                ( /\ indexOf(p) > indexOf(currentPhase)
                  /\ phaseStatuses'[p] = PhaseStatuses.IN_PROGRESS )
                => phaseStatuses[p] = PhaseStatuses.IN_PROGRESS ]_vars

TaskOps == { "ProbeResolved", "ProbeRejected", "DelayElapsed", "TimerElapsed" }

\* Task i comes from a probe that was pending when reset was called, and the
\* component's current phase or its status is no longer what the probe
\* started with.
StaleProbe(i) ==
    /\ tasks[i].kind # "idle"
    /\ tasks[i].fromProbe
    /\ tasks[i].stale
    /\ \/ timelineCurrentPhase(phasesState) # tasks[i].phase
       \/ phasesState[tasks[i].phase] # MMConnectionStates.IN_PROGRESS

\* C6: the resolution of a probe that has become stale is ignored: its steps
\* change no phase status, set no goOn or breakProcess timer and invoke no
\* callback.
C6_StaleProbeIgnored ==
    [][ \A i \in 1..MaxTasks :
          ( /\ StaleProbe(i)
            /\ lastOp' \in TaskOps
            /\ tasks'[i] # tasks[i] )
          => /\ phasesState' = phasesState
             /\ tasks'[i].kind # "timer"
             /\ callback' = "none" ]_vars

\* The stored lastSuccessfulConnection is null or older than the timeout at t.
Stale(last, t) == last = Null \/ (t - last) > CONNECTION_RESET_TIMEOUT_MINUTES

\* C7: construction over a stored record whose lastSuccessfulConnection is
\* null or older than the timeout yields firstTimeConnection = true.
C7_StaleForcesFirstTime ==
    ( /\ lastOp = "Reload"
      /\ storage.present
      /\ Stale(storage.state.lastSuccessfulConnection, now) )
    => firstTimeConnection = TRUE

\* C8: construction over a stored record whose lastSuccessfulConnection is
\* non-null and not older than the timeout yields the two stored values.
C8_FreshRestoresStored ==
    ( /\ lastOp = "Reload"
      /\ storage.present
      /\ ~Stale(storage.state.lastSuccessfulConnection, now) )
    => /\ firstTimeConnection = storage.state.firstTimeConnection
       /\ lastSuccessfulConnection = storage.state.lastSuccessfulConnection

\* A store constructed over a fresh record that holds firstTimeConnection = true.
C8_Witness ==
    /\ lastOp = "Reload"
    /\ storage.present
    /\ ~Stale(storage.state.lastSuccessfulConnection, now)
    /\ storage.state.firstTimeConnection = TRUE
    /\ firstTimeConnection = TRUE

\* C9: after fullReset the store and the Timeline are in their initial state.
C9_FullResetComplete ==
    lastOp = "fullReset" =>
        /\ firstTimeConnection = TRUE
        /\ lastSuccessfulConnection = Null
        /\ currentPhase = FirstPhase
        /\ \A p \in Phases :
             /\ phaseStatuses[p] = PhaseStatuses.WAITING
             /\ phaseTimestamps[p] = Null
             /\ \A s \in Statuses : timeline[p][s] = NullStr

\* fullReset after a completed connection: storage holds the reset fields.
C9_Witness ==
    /\ lastOp = "fullReset"
    /\ steps = 6
    /\ now > 1
    /\ storage = setItem(partialize(TRUE, Null))

\* C10 as claimed: every status change goOn makes is recorded in the Timeline
\* at the very instant recorded in phaseTimestamps.
C10_TimelineEqualsTimestamps ==
    [][ lastOp' = "goOn" =>
          /\ timeline'[currentPhase][PhaseStatuses.SUCCESS] # NullStr
          /\ DateParse(timeline'[currentPhase][PhaseStatuses.SUCCESS])
               = phaseTimestamps'[currentPhase]
          /\ currentPhase' # currentPhase =>
               /\ timeline'[currentPhase'][PhaseStatuses.IN_PROGRESS] # NullStr
               /\ DateParse(timeline'[currentPhase'][PhaseStatuses.IN_PROGRESS])
                    = phaseTimestamps'[currentPhase'] ]_vars

\* C10 amended: every status change goOn makes is recorded in both, the
\* Timeline's instant read from the clock after the one of phaseTimestamps.
C10_TimelineNotBeforeTimestamps ==
    [][ lastOp' = "goOn" =>
          /\ timeline'[currentPhase][PhaseStatuses.SUCCESS] # NullStr
          /\ phaseTimestamps'[currentPhase] # Null
          /\ phaseTimestamps'[currentPhase] >= now
          /\ DateParse(timeline'[currentPhase][PhaseStatuses.SUCCESS])
               >= phaseTimestamps'[currentPhase]
          /\ currentPhase' # currentPhase =>
               /\ timeline'[currentPhase'][PhaseStatuses.IN_PROGRESS] # NullStr
               /\ phaseTimestamps'[currentPhase'] # Null
               /\ DateParse(timeline'[currentPhase'][PhaseStatuses.IN_PROGRESS])
                    >= phaseTimestamps'[currentPhase'] ]_vars

\* firstStart(); goOn() with the clock advancing between goOn's two reads.
C10_Witness ==
    /\ lastOp = "goOn"
    /\ steps = 2
    /\ phaseStatuses[phaseOrder[1]] = PhaseStatuses.SUCCESS
    /\ phaseStatuses[phaseOrder[2]] = PhaseStatuses.IN_PROGRESS
    /\ DateParse(timeline[phaseOrder[1]][PhaseStatuses.SUCCESS])
         > phaseTimestamps[phaseOrder[1]]
    /\ timeline[phaseOrder[2]][PhaseStatuses.IN_PROGRESS] # NullStr
(***************************************************************************)
(* Properties of setPhaseStatus, of the stored item and of construction.   *)
(***************************************************************************)

\* C11: setPhaseStatus(P, waiting) on a phase P with a non-null timestamp T
\* yields status waiting, leaves phaseTimestamps[P] = T and changes no
\* Timeline entry of any phase.
C11_WaitingKeepsTimestamp ==
    [][ \A P \in Phases :
          ( /\ lastOp' = "setPhaseStatus"
            /\ opArgs' = << P, PhaseStatuses.WAITING >>
            /\ phaseTimestamps[P] # Null )
          => /\ phaseStatuses'[P] = PhaseStatuses.WAITING
             /\ phaseTimestamps'[P] = phaseTimestamps[P]
             /\ timeline' = timeline ]_vars

\* firstStart(); setPhaseStatus(phase1, waiting) after the clock has moved:
\* the first phase waits again and keeps the timestamp of its start.
C11_Witness ==
    /\ lastOp = "setPhaseStatus"
    /\ opArgs = << FirstPhase, PhaseStatuses.WAITING >>
    /\ steps = 2
    /\ phaseStatuses[FirstPhase] = PhaseStatuses.WAITING
    /\ phaseTimestamps[FirstPhase] = 2
    /\ timeline[FirstPhase][PhaseStatuses.IN_PROGRESS] # NullStr

MutatingOps ==
    { "firstStart", "reStart", "goOn", "goFail", "cancel", "setPhaseStatus",
      "resetStatuses", "fullReset" }

\* C12: after every mutating operation the stored item holds exactly the
\* fields firstTimeConnection and lastSuccessfulConnection, with the values
\* of the store's current state.
C12_WriteThrough ==
    lastOp \in MutatingOps =>
        /\ storage.present
        /\ storage.isObject
        /\ DOMAIN storage.state = { "firstTimeConnection", "lastSuccessfulConnection" }
        /\ storage.state.firstTimeConnection = firstTimeConnection
        /\ storage.state.lastSuccessfulConnection = lastSuccessfulConnection

\* firstStart(); setPhaseStatus(...) on the fresh stores: the item, absent
\* before, holds {false, null} as the store does.
C12_Witness ==
    /\ lastOp = "setPhaseStatus"
    /\ steps = 2
    /\ firstTimeConnection = FALSE
    /\ lastSuccessfulConnection = Null
    /\ storage.present
    /\ storage.state.firstTimeConnection = FALSE
    /\ storage.state.lastSuccessfulConnection = Null

\* C13: whatever item the storage holds, a newly constructed store is on the
\* first phase with all statuses waiting and all phase timestamps null, and
\* over an absent item firstTimeConnection is true and
\* lastSuccessfulConnection null.
C13_ConstructionFresh ==
    [][ lastOp' = "Reload" =>
          /\ currentPhase' = FirstPhase
          /\ \A p \in Phases :
               /\ phaseStatuses'[p] = PhaseStatuses.WAITING
               /\ phaseTimestamps'[p] = Null
          /\ ~storage.present =>
               /\ firstTimeConnection' = TRUE
               /\ lastSuccessfulConnection' = Null ]_vars

\* C14: migrate does not throw on any stored state, fills
\* lastSuccessfulConnection, phaseStatuses and phaseTimestamps when they are
\* missing and preserves every field that is present.
C14_MigrateNeverFails ==
    [][ ( lastOp' = "Reload" /\ needsMigration(storage) ) =>
          /\ ~migrateThrows(storage)
          /\ LET persisted == storage.state
                 migrated  == migrate(persisted)
             IN  /\ "lastSuccessfulConnection" \notin DOMAIN persisted
                      => migrated.lastSuccessfulConnection = Null
                 /\ "phaseStatuses" \notin DOMAIN persisted
                      => migrated.phaseStatuses = initialStatuses
                 /\ "phaseTimestamps" \notin DOMAIN persisted
                      => migrated.phaseTimestamps = initialTimestamps
                 /\ \A f \in DOMAIN persisted : migrated[f] = persisted[f] ]_vars

(***************************************************************************)
(* What each operation of the store changes and what it leaves alone.      *)
(***************************************************************************)

\* C15: firstStart makes the first phase current and inProgress with a
\* non-null timestamp, sets firstTimeConnection to false and writes
\* timeline[phase1][inProgress]; the statuses and timestamps of the other
\* three phases, lastSuccessfulConnection and every other Timeline entry stay
\* as they were.
C15_FirstStartFrame ==
    [][ lastOp' = "firstStart" =>
          /\ currentPhase' = FirstPhase
          /\ phaseStatuses'[FirstPhase] = PhaseStatuses.IN_PROGRESS
          /\ phaseTimestamps'[FirstPhase] # Null
          /\ phaseTimestamps'[FirstPhase] \in now..now'
          /\ firstTimeConnection' = FALSE
          /\ timeline'[FirstPhase][PhaseStatuses.IN_PROGRESS] # NullStr
          /\ DateParse(timeline'[FirstPhase][PhaseStatuses.IN_PROGRESS]) \in now..now'
          /\ \A p \in Phases \ {FirstPhase} :
               /\ phaseStatuses'[p] = phaseStatuses[p]
               /\ phaseTimestamps'[p] = phaseTimestamps[p]
          /\ lastSuccessfulConnection' = lastSuccessfulConnection
          /\ \A p \in Phases : \A st \in Statuses :
               << p, st >> # << FirstPhase, PhaseStatuses.IN_PROGRESS >>
                   => timeline'[p][st] = timeline[p][st] ]_vars

\* firstStart on a store that has completed a connection: the first phase is
\* inProgress again while the other three phases are still successful and
\* lastSuccessfulConnection is kept.
C15_Witness ==
    /\ lastOp = "firstStart"
    /\ phaseStatuses[FirstPhase] = PhaseStatuses.IN_PROGRESS
    /\ \A p \in Phases \ {FirstPhase} :
         /\ phaseStatuses[p] = PhaseStatuses.SUCCESS
         /\ phaseTimestamps[p] # Null
    /\ lastSuccessfulConnection # Null
    /\ firstTimeConnection = FALSE
    /\ timeline[LastPhase][PhaseStatuses.SUCCESS] # NullStr

C17_ReStartResetsStatuses ==
    lastOp = "reStart" =>
        /\ phaseStatuses[FirstPhase] = PhaseStatuses.IN_PROGRESS
        /\ \A p \in Phases \ {FirstPhase} : phaseStatuses[p] = PhaseStatuses.WAITING

\* C18: goFail sets the status of the current phase to fail with a timestamp
\* taken during the call and writes timeline[currentPhase][fail]; currentPhase,
\* lastSuccessfulConnection, firstTimeConnection and the statuses and
\* timestamps of all other phases stay as they were.
C18_GoFailFrame ==
    [][ lastOp' = "goFail" =>
          /\ phaseStatuses'[currentPhase] = PhaseStatuses.FAIL
          /\ phaseTimestamps'[currentPhase] # Null
          /\ phaseTimestamps'[currentPhase] \in now..now'
          /\ timeline'[currentPhase][PhaseStatuses.FAIL] # NullStr
          /\ DateParse(timeline'[currentPhase][PhaseStatuses.FAIL]) \in now..now'
          /\ currentPhase' = currentPhase
          /\ lastSuccessfulConnection' = lastSuccessfulConnection
          /\ firstTimeConnection' = firstTimeConnection
          /\ \A p \in Phases \ {currentPhase} :
               /\ phaseStatuses'[p] = phaseStatuses[p]
               /\ phaseTimestamps'[p] = phaseTimestamps[p] ]_vars

\* goFail after a completed connection: the last phase has failed and is
\* still current, the other phases keep their success and
\* lastSuccessfulConnection is still there.
C18_Witness ==
    /\ lastOp = "goFail"
    /\ currentPhase = LastPhase
    /\ phaseStatuses[LastPhase] = PhaseStatuses.FAIL
    /\ \A p \in Phases \ {LastPhase} : phaseStatuses[p] = PhaseStatuses.SUCCESS
    /\ timeline[LastPhase][PhaseStatuses.FAIL] # NullStr
    /\ phaseTimestamps[LastPhase] # Null
    /\ firstTimeConnection = FALSE
    /\ lastSuccessfulConnection # Null

\* C19: cancel sets the status of the current phase to cancelled with a timestamp
\* taken during the call and writes timeline[currentPhase][cancelled]; currentPhase,
\* lastSuccessfulConnection, firstTimeConnection and the statuses and
\* timestamps of all other phases stay as they were.
C19_CancelFrame ==
    [][ lastOp' = "cancel" =>
          /\ phaseStatuses'[currentPhase] = PhaseStatuses.CANCELLED
          /\ phaseTimestamps'[currentPhase] # Null
          /\ phaseTimestamps'[currentPhase] \in now..now'
          /\ timeline'[currentPhase][PhaseStatuses.CANCELLED] # NullStr
          /\ DateParse(timeline'[currentPhase][PhaseStatuses.CANCELLED]) \in now..now'
          /\ currentPhase' = currentPhase
          /\ lastSuccessfulConnection' = lastSuccessfulConnection
          /\ firstTimeConnection' = firstTimeConnection
          /\ \A p \in Phases \ {currentPhase} :
               /\ phaseStatuses'[p] = phaseStatuses[p]
               /\ phaseTimestamps'[p] = phaseTimestamps[p] ]_vars

\* firstStart(); goOn(); cancel(): the second phase is cancelled and still
\* current, the first phase keeps its success and the last two phases wait.
C19_Witness ==
    /\ lastOp = "cancel"
    /\ steps = 3
    /\ currentPhase = phaseOrder[2]
    /\ phaseStatuses[phaseOrder[2]] = PhaseStatuses.CANCELLED
    /\ phaseStatuses[FirstPhase] = PhaseStatuses.SUCCESS
    /\ phaseStatuses[phaseOrder[3]] = PhaseStatuses.WAITING
    /\ phaseStatuses[LastPhase] = PhaseStatuses.WAITING
    /\ timeline[phaseOrder[2]][PhaseStatuses.CANCELLED] # NullStr
    /\ firstTimeConnection = FALSE

\* C20: resetStatuses makes the first phase current, every status waiting,
\* every phase timestamp null and every Timeline entry null, and leaves
\* firstTimeConnection and lastSuccessfulConnection as they were.
C20_ResetStatusesFrame ==
    [][ lastOp' = "resetStatuses" =>
          /\ currentPhase' = FirstPhase
          /\ \A p \in Phases :
               /\ phaseStatuses'[p] = PhaseStatuses.WAITING
               /\ phaseTimestamps'[p] = Null
               /\ \A st \in Statuses : timeline'[p][st] = NullStr
          /\ firstTimeConnection' = firstTimeConnection
          /\ lastSuccessfulConnection' = lastSuccessfulConnection ]_vars

\* resetStatuses after a completed connection: everything waits again, and
\* the store still knows it has connected before and when.
C20_Witness ==
    /\ lastOp = "resetStatuses"
    /\ steps = 6
    /\ currentPhase = FirstPhase
    /\ \A p \in Phases : phaseStatuses[p] = PhaseStatuses.WAITING
    /\ firstTimeConnection = FALSE
    /\ lastSuccessfulConnection # Null
    /\ storage.state.lastSuccessfulConnection = lastSuccessfulConnection

(***************************************************************************)
(* The two persisted fields over a session.                                *)
(***************************************************************************)

\* C21: lastSuccessfulConnection changes in two ways only: goOn on the last
\* phase sets it to the current time and fullReset sets it to null; no other
\* operation, and no goOn on an earlier phase, changes it.
C21_LastSuccessfulChanges ==
    [][ /\ lastSuccessfulConnection' # lastSuccessfulConnection =>
              \/ lastOp' = "goOn" /\ currentPhase = LastPhase
              \/ lastOp' = "fullReset"
        /\ ( lastOp' = "goOn" /\ currentPhase = LastPhase ) =>
              lastSuccessfulConnection' = now'
        /\ lastOp' = "fullReset" => lastSuccessfulConnection' = Null ]_vars

\* goOn on the last phase of a store that connected at minute 1, called at
\* minute 2: lastSuccessfulConnection moves to minute 2.
C21_Witness ==
    /\ lastOp = "goOn"
    /\ steps = 1
    /\ currentPhase = LastPhase
    /\ now = 2
    /\ lastSuccessfulConnection = 2

\* C22: within a session firstTimeConnection is true until the first
\* firstStart and false from then on until fullReset: only firstStart makes
\* it false, only fullReset makes it true again, and every other operation
\* leaves it as it is.
C22_FirstTimeChanges ==
    [][ /\ firstTimeConnection' # firstTimeConnection =>
              \/ lastOp' = "firstStart" /\ firstTimeConnection' = FALSE
              \/ lastOp' = "fullReset" /\ firstTimeConnection' = TRUE
        /\ lastOp' = "firstStart" => firstTimeConnection' = FALSE
        /\ lastOp' = "fullReset" => firstTimeConnection' = TRUE ]_vars

\* setPhaseStatus and then firstStart on the fresh store: the flag, true
\* through the first operation, is false after firstStart.
C22_Witness ==
    /\ lastOp = "firstStart"
    /\ steps = 2
    /\ firstTimeConnection = FALSE
    /\ lastSuccessfulConnection = Null
    /\ \E p \in Phases \ {FirstPhase} : phaseStatuses[p] # PhaseStatuses.WAITING

(***************************************************************************)
(* Properties of MetaMaskConnectionTimeline and its probes.                *)
(***************************************************************************)

\* The calls of `phase`'s probe that are in flight and were made since the
\* phase last became in progress.
ProbesInFlight(phase) ==
    { i \in 1..MaxTasks :
        /\ tasks[i].kind = "probe"
        /\ tasks[i].phase = phase
        /\ ~tasks[i].stale }

\* C23: while a phase is current and in progress its probe is called at most
\* once for that entry into inProgress; re-renders, isFinished, a new probe
\* function or the other phases never cause a second call.
C23_ProbeOncePerEntry ==
    \A phase \in MMPhases :
        ( /\ timelineCurrentPhase(phasesState) = phase
          /\ phasesState[phase] = MMConnectionStates.IN_PROGRESS )
        => Cardinality(ProbesInFlight(phase)) <= 1

\* C24: the result of a phase's probe is acted on exactly once: resolved
\* true it sets the timer of goOn, which marks the phase success; resolved
\* false or rejected it sets the timer of breakProcess, which marks the phase
\* fail.  (Probes called before a reset are left to C6.)
C24_ProbeResultActs ==
    [][ \A i \in 1..MaxTasks :
          LET task == tasks[i]
              next == tasks'[i]
              acted(result) == /\ next.kind = "timer"
                               /\ next.phase = task.phase
                               /\ next.result = result
          IN  ( task.fromProbe /\ ~task.stale ) =>
                /\ ( task.kind = "delay" /\ next.kind # "delay" )
                      => acted(task.result)
                /\ ( task.kind = "probe" /\ next.kind \notin { "probe", "delay" } )
                      => acted(FALSE)
                /\ ( task.kind = "timer" /\ next # task /\ ~next.stale )
                      => phasesState'[task.phase] =
                           IF task.result THEN MMConnectionStates.SUCCESS
                                          ELSE MMConnectionStates.FAIL ]_vars

\* C25: isWaiting() is true exactly when some phase is in progress; so it is
\* false when all phases wait, when a phase has failed and none is in
\* progress, and when all phases have succeeded.
C25_IsWaiting ==
    LET inProgress == { p \in MMPhases :
                          phasesState[p] = MMConnectionStates.IN_PROGRESS }
        all(status) == \A p \in MMPhases : phasesState[p] = status
    IN  /\ isWaiting(phasesState) <=> inProgress # {}
        /\ all(MMConnectionStates.WAITING) => ~isWaiting(phasesState)
        /\ all(MMConnectionStates.SUCCESS) => ~isWaiting(phasesState)
        /\ ( inProgress = {}
             /\ \E p \in MMPhases : phasesState[p] = MMConnectionStates.FAIL )
               => ~isWaiting(phasesState)

\* The second phase has just failed after the first succeeded: isWaiting(),
\* true while the second phase was in progress, is false.
C25_Witness ==
    /\ lastOp = "TimerElapsed"
    /\ callback = "onBreak"
    /\ phasesState[mmPhaseOrder[1]] = MMConnectionStates.SUCCESS
    /\ phasesState[mmPhaseOrder[2]] = MMConnectionStates.FAIL
    /\ ~isWaiting(phasesState)

\* C30: a ref.goOn() or ref.break() that is accepted sets a timer for the
\* phase current at the call; the timer eventually fires, and when it does the
\* phase is success and, unless it is the last, the following phase is in
\* progress, with onGoOn called (or the phase is fail, with onBreak called);
\* the callbacks are called by firing timers only, once per timer.
C30_AcceptedRequestActs ==
    /\ [][ ( lastOp' \in { "ref.goOn", "ref.break" } /\ ~isProcessing ) =>
              \E i \in 1..MaxTasks :
                  /\ tasks[i].kind = "idle"
                  /\ tasks'[i] = TimerTask(timelineCurrentPhase(phasesState),
                                           lastOp' = "ref.goOn", FALSE, FALSE) ]_vars
    /\ [][ \A i \in 1..MaxTasks :
              ( tasks[i].kind = "timer" /\ tasks'[i].kind # "timer" ) =>
                 LET phase == tasks[i].phase
                     index == mmIndexOf(phase)
                 IN  IF tasks[i].result
                     THEN /\ phasesState'[phase] = MMConnectionStates.SUCCESS
                          /\ index < Len(mmPhaseOrder) =>
                               phasesState'[mmPhaseOrder[index + 1]] =
                                   MMConnectionStates.IN_PROGRESS
                          /\ callback' = "onGoOn"
                     ELSE /\ phasesState'[phase] = MMConnectionStates.FAIL
                          /\ callback' = "onBreak" ]_vars
    /\ [][ callback' \in { "onGoOn", "onBreak" } =>
              Cardinality({ i \in 1..MaxTasks :
                              tasks[i].kind = "timer" /\ tasks'[i].kind # "timer" }) = 1 ]_vars
    /\ \A i \in 1..MaxTasks :
         ( tasks[i].kind = "timer" ) ~> ( tasks[i].kind # "timer" )

\* ref.goOn() on the mounted component and its timer: the first phase is
\* success, the second in progress, onGoOn has just been called.
C30_Witness ==
    /\ checkers = {}
    /\ lastOp = "TimerElapsed"
    /\ callback = "onGoOn"
    /\ phasesState[mmPhaseOrder[1]] = MMConnectionStates.SUCCESS
    /\ phasesState[mmPhaseOrder[2]] = MMConnectionStates.IN_PROGRESS
    /\ stageTimestamps[mmPhaseOrder[1]] # NullStr
    /\ ~isProcessing

(***************************************************************************)
(* Recovery operations applied twice.                                      *)
(***************************************************************************)

\* The Timeline entries of tl that hold a timestamp.
NonNullEntries(tl) ==
    { << p, st >> \in Phases \X Statuses : tl[p][st] # NullStr }

\* C26: reStart applied to the state a reStart has just produced changes
\* neither currentPhase, the statuses, firstTimeConnection,
\* lastSuccessfulConnection nor the set of non-null Timeline entries, and
\* the same holds for cancel after cancel (the timestamps may be later).
C26_RecoveryIdempotent ==
    [][ ( lastOp \in { "reStart", "cancel" } /\ lastOp' = lastOp ) =>
          /\ currentPhase' = currentPhase
          /\ phaseStatuses' = phaseStatuses
          /\ firstTimeConnection' = firstTimeConnection
          /\ lastSuccessfulConnection' = lastSuccessfulConnection
          /\ NonNullEntries(timeline') = NonNullEntries(timeline) ]_vars

\* firstStart(); goOn(); cancel(); cancel(), the second cancel a minute after
\* the first: the second phase is cancelled and current as after the first
\* cancel, with the later timestamp.
C26_Witness ==
    /\ prevOp = "cancel"
    /\ lastOp = "cancel"
    /\ steps = 4
    /\ currentPhase = phaseOrder[2]
    /\ phaseStatuses[FirstPhase] = PhaseStatuses.SUCCESS
    /\ phaseStatuses[phaseOrder[2]] = PhaseStatuses.CANCELLED
    /\ phaseTimestamps[phaseOrder[2]] = 2
    /\ DateParse(timeline[phaseOrder[2]][PhaseStatuses.IN_PROGRESS]) = 1
    /\ DateParse(timeline[phaseOrder[2]][PhaseStatuses.CANCELLED]) = 2

(***************************************************************************)
(* Properties of the Timeline's entries.                                   *)
(***************************************************************************)

\* C27: setTimestamp(phase, status, t) writes the entry
\* timeline[phase][status] and no other (with the current time when t is
\* omitted), whatever was called before; a repeated call overwrites the
\* entry with the value of the later call.
C27_SetTimestampFrame ==
    [][ lastOp' = "setTimestamp" =>
          LET phase     == opArgs'[1]
              status    == opArgs'[2]
              timestamp == opArgs'[3]
          IN  /\ timeline'[phase][status] = timestamp
              /\ \A p \in Phases : \A st \in Statuses :
                   << p, st >> # << phase, status >>
                       => timeline'[p][st] = timeline[p][st]
              /\ opArgs'[4] = "default" =>
                   /\ timestamp = toISOString(now')
                   /\ now' >= now ]_vars

\* Two setTimestamp calls on the same entry, the second with an earlier
\* instant than the first: the entry holds the value of the second call.
C27_Witness ==
    /\ prevOp = "setTimestamp"
    /\ lastOp = "setTimestamp"
    /\ steps = 2
    /\ now = 2
    /\ NonNullEntries(timeline) = { << opArgs[1], opArgs[2] >> }
    /\ opArgs[4] = "given"
    /\ timeline[opArgs[1]][opArgs[2]] = toISOString(1)

\* The operations that reset the whole Timeline; a page load builds a new,
\* empty Timeline store.
TimelineResets == { "reStart", "resetStatuses", "fullReset", "Reload" }

\* C28: no operation other than a reset of the whole Timeline sets a non-null
\* entry back to null: firstStart, goOn, goFail, cancel and setPhaseStatus
\* leave a non-null entry as it is or overwrite it with the instant of the
\* later call, which is not earlier than the one it held.
C28_NoDeletionButReset ==
    [][ lastOp' \notin TimelineResets =>
          \A p \in Phases : \A st \in Statuses :
              timeline[p][st] # NullStr =>
                  /\ timeline'[p][st] # NullStr
                  /\ DateParse(timeline'[p][st]) >= DateParse(timeline[p][st]) ]_vars

\* goOn on the last phase a minute after a completed connection:
\* timeline[last][success] moves from minute 1 to minute 2 and the entries of
\* the other phases are kept.
C28_Witness ==
    /\ lastOp = "goOn"
    /\ steps = 1
    /\ currentPhase = LastPhase
    /\ timeline[LastPhase][PhaseStatuses.SUCCESS] = toISOString(2)
    /\ timeline[LastPhase][PhaseStatuses.IN_PROGRESS] = toISOString(1)
    /\ timeline[FirstPhase][PhaseStatuses.SUCCESS] = toISOString(1)

(***************************************************************************)
(* setPhaseStatus with a status other than waiting.                        *)
(***************************************************************************)

\* C29: for every phase P and every status S other than waiting,
\* setPhaseStatus(P, S) gives P the status S whatever the current phase and
\* the status P had, sets phaseTimestamps[P] to the time of the call and
\* writes timeline[P][S]; currentPhase and the statuses and timestamps of the
\* other phases stay as they were.
C29_SetPhaseStatusActs ==
    [][ ( lastOp' = "setPhaseStatus" /\ opArgs'[2] # PhaseStatuses.WAITING ) =>
          LET P == opArgs'[1]
              S == opArgs'[2]
          IN  /\ phaseStatuses'[P] = S
              /\ phaseTimestamps'[P] # Null
              /\ phaseTimestamps'[P] \in now..now'
              /\ timeline'[P][S] # NullStr
              /\ DateParse(timeline'[P][S]) \in phaseTimestamps'[P]..now'
              /\ currentPhase' = currentPhase
              /\ \A p \in Phases \ {P} :
                   /\ phaseStatuses'[p] = phaseStatuses[p]
                   /\ phaseTimestamps'[p] = phaseTimestamps[p] ]_vars

\* setPhaseStatus(last phase, fail) on the fresh store: the last phase,
\* which was waiting and is not the current phase, has failed.
C29_Witness ==
    /\ lastOp = "setPhaseStatus"
    /\ opArgs = << LastPhase, PhaseStatuses.FAIL >>
    /\ steps = 1
    /\ currentPhase = FirstPhase
    /\ phaseStatuses[LastPhase] = PhaseStatuses.FAIL
    /\ phaseStatuses[FirstPhase] = PhaseStatuses.WAITING
    /\ phaseTimestamps[LastPhase] # Null
    /\ timeline[LastPhase][PhaseStatuses.FAIL] # NullStr

(***************************************************************************)
(* Invariants of the Connection store.                                     *)
(***************************************************************************)

\* C32: without setPhaseStatus, every phase before currentPhase in the fixed
\* order has status success.
C32_EarlierPhasesSucceeded ==
    \A i \in 1..(indexOf(currentPhase) - 1) :
        phaseStatuses[phaseOrder[i]] = PhaseStatuses.SUCCESS

\* firstStart(); goOn(); goFail(); goOn(); goOn(): the second phase failed
\* and was then passed; the last phase is current and in progress with the
\* three phases before it successful.
C32_Witness ==
    /\ lastOp = "goOn"
    /\ steps = 5
    /\ currentPhase = LastPhase
    /\ phaseStatuses[LastPhase] = PhaseStatuses.IN_PROGRESS
    /\ \A p \in Phases \ {LastPhase} : phaseStatuses[p] = PhaseStatuses.SUCCESS
    /\ timeline[phaseOrder[2]][PhaseStatuses.FAIL] # NullStr

\* C33: with all operations of the store, setPhaseStatus included, every
\* phase whose status is not waiting has a non-null phaseTimestamps entry.
C33_StatusHasTimestamp ==
    \A p \in Phases :
        phaseStatuses[p] # PhaseStatuses.WAITING => phaseTimestamps[p] # Null

\* setPhaseStatus(last phase, cancelled) on the fresh store, whose
\* timestamps were all null: the last phase has a timestamp.
C33_Witness ==
    /\ lastOp = "setPhaseStatus"
    /\ opArgs = << LastPhase, PhaseStatuses.CANCELLED >>
    /\ steps = 1
    /\ lastSuccessfulConnection = Null
    /\ phaseStatuses[LastPhase] = PhaseStatuses.CANCELLED
    /\ phaseTimestamps[LastPhase] # Null
    /\ \A p \in Phases \ {LastPhase} : phaseTimestamps[p] = Null

\* C34: the Timeline mirrors the store: whenever a phase P has a status S
\* other than waiting, timeline[P][S] is non-null.
C34_TimelineMirrorsStatuses ==
    \A p \in Phases :
        phaseStatuses[p] # PhaseStatuses.WAITING
            => timeline[p][phaseStatuses[p]] # NullStr

PhasesInProgress(statuses) ==
    { p \in Phases : statuses[p] = PhaseStatuses.IN_PROGRESS }

\* C35: goOn called while the current phase is the only phase in progress
\* and is not the last one.  Its two setTimestamp calls change nothing of the
\* Connection store and write, first, the (current, success) entry of the
\* Timeline and, second, the (next, inProgress) entry, and nothing else of
\* the Timeline; its set() then leaves the Timeline alone and makes the current
\* phase's success, the next phase's inProgress and the new currentPhase
\* visible in one step.  Every state from the call to the return has exactly
\* one phase in progress.
C35_GoOnSingleStep ==
    [][ LET cur == currentPhase
            nxt == nextPhaseOf(indexOf(cur))
            connectionKept ==
                UNCHANGED << currentPhase, phaseStatuses, phaseTimestamps,
                             firstTimeConnection, lastSuccessfulConnection >>
            written(phase, status) ==
                /\ timeline'[phase][status] # NullStr
                /\ timeline' = [ timeline EXCEPT
                                   ![phase][status] = timeline'[phase][status] ]
        IN  (PhasesInProgress(phaseStatuses) = { cur } /\ nxt # "") =>
            /\ (pc = Idle /\ pc' # Idle) =>
                   /\ pc'.at = "current written"
                   /\ connectionKept
                   /\ written(cur, PhaseStatuses.SUCCESS)
            /\ (pc # Idle /\ pc' # Idle) =>
                   /\ pc.at = "current written"
                   /\ pc'.at = "next written"
                   /\ connectionKept
                   /\ written(nxt, PhaseStatuses.IN_PROGRESS)
            /\ (pc # Idle /\ pc' = Idle) =>
                   /\ pc.at = "next written"
                   /\ timeline' = timeline
                   /\ timeline[cur][PhaseStatuses.SUCCESS] # NullStr
                   /\ timeline[nxt][PhaseStatuses.IN_PROGRESS] # NullStr
                   /\ phaseStatuses'[cur] = PhaseStatuses.SUCCESS
                   /\ phaseStatuses'[nxt] = PhaseStatuses.IN_PROGRESS
                   /\ currentPhase' = nxt
            /\ (pc # Idle \/ pc' # Idle) =>
                   Cardinality(PhasesInProgress(phaseStatuses')) = 1
      ]_vars

\* goOn has returned after its three steps: the second phase is the current
\* one and the only one in progress, and both Timeline entries are written.
C35_Witness ==
    /\ lastOp = "goOn"
    /\ pc = Idle
    /\ steps = 4
    /\ currentPhase = phaseOrder[2]
    /\ phaseStatuses[phaseOrder[1]] = PhaseStatuses.SUCCESS
    /\ PhasesInProgress(phaseStatuses) = { phaseOrder[2] }
    /\ timeline[phaseOrder[1]][PhaseStatuses.SUCCESS] # NullStr
    /\ timeline[phaseOrder[2]][PhaseStatuses.IN_PROGRESS] # NullStr

\* C36 as stated: whenever the last phase has status success, goOn leaves
\* currentPhase and the four statuses as they are.
C36_GoOnAfterLastSuccess ==
    [][ (phaseStatuses[LastPhase] = PhaseStatuses.SUCCESS /\ lastOp' = "goOn") =>
            UNCHANGED << currentPhase, phaseStatuses >>
      ]_vars

\* C36: whenever the last phase is the current phase and has status success,
\* goOn leaves currentPhase and the four statuses as they are.
C36_GoOnAtCompletedLast ==
    [][ ( /\ currentPhase = LastPhase
          /\ phaseStatuses[LastPhase] = PhaseStatuses.SUCCESS
          /\ lastOp' = "goOn" ) =>
            UNCHANGED << currentPhase, phaseStatuses >>
      ]_vars

\* goOn called right after a completed connection: the statuses and
\* currentPhase are those of the completed connection, and the call has set
\* lastSuccessfulConnection anew.
C36_Witness ==
    /\ lastOp = "goOn"
    /\ steps = 1
    /\ currentPhase = LastPhase
    /\ \A p \in Phases : phaseStatuses[p] = PhaseStatuses.SUCCESS
    /\ lastSuccessfulConnection = 2
    /\ phaseTimestamps[phaseOrder[1]] = 1

AllPhasesSucceeded ==
    \A p \in MMPhases : phasesState[p] = MMConnectionStates.SUCCESS

C38_AtMostOneInProgress ==
    Cardinality({ p \in MMPhases :
                    phasesState[p] = MMConnectionStates.IN_PROGRESS }) <= 1

\* A goOn or break has been accepted and its timer has not fired yet.
TransitionPending == \E i \in 1..MaxTasks : tasks[i].kind = "timer"

RunCompleted ==
    /\ AllPhasesSucceeded
    /\ ~isWaiting(phasesState)
    /\ isFinished

\* C31: with the four checkers supplied and resolving true, and with no
\* reset and no break, the component reaches the state in which all four
\* phases are success, none is in progress and the run is finished.
C31_ProbeRunCompletes == <>RunCompleted

\* The timer of the fourth phase has fired: the run is completed, onGoOn has
\* been called, every phase has its timestamp and nothing is pending.
C31_Witness ==
    /\ RunCompleted
    /\ lastOp = "TimerElapsed"
    /\ callback = "onGoOn"
    /\ ~isProcessing
    /\ \A p \in MMPhases : stageTimestamps[p] # NullStr
    /\ \A i \in 1..MaxTasks : tasks[i].kind = "idle"

====
